---- MODULE Spec2Model ----
(***************************************************************************)
(* AlertGate dashboard client (src/src/web/static/dashboard.js).           *)
(*                                                                         *)
(* The AlertGateDashboard object, the WebSocket objects it creates, the    *)
(* timers it sets and the DOM nodes it writes are the state.  Every        *)
(* callback the browser event loop can run (channel open / message /      *)
(* close / error, the reconnect timeout, the heartbeat interval, the      *)
(* completion of the /api/events fetch) is one action; callbacks never    *)
(* interleave with each other (single-threaded event loop).               *)
(***************************************************************************)
EXTENDS Integers, Sequences, FiniteSets, TLC

VARIABLES
    sockets,          \* slot -> WebSocket object ([readyState, closePending]) or a free slot
    ws,               \* this.ws: 0 (null) or the slot of the socket it refers to
    isConnected,      \* this.isConnected
    statusDot,        \* #statusDot className suffix written by updateConnectionStatus
    statusText,       \* #statusText textContent
    timers,           \* pending setTimeout callbacks of onclose: <<[remaining, age]>>
    heartbeats,       \* setInterval timers of updateElements: <<remaining ms>>
    eventsContainer,  \* children of #eventsContainer, first child first
    seenEventKeys,    \* this.seenEventKeys
    renderCount,      \* number of insertAdjacentHTML calls made by addEvent
    fpsCounter,       \* #fpsCounter textContent
    statsGrid,        \* #statsGrid cards
    votingStatus,     \* #votingStatus rows
    motionView,       \* motion dot / text / area / contours
    backfill,         \* loadRecentEvents: "pending", "done" or "failed"
    produced,         \* number of detection events the server has generated so far
    failures,         \* closes seen since the last successful open (saturating)
    lastOp,           \* the callback that ran last and what it did
    probe             \* inputs and results of the function a specification exercises

vars == <<sockets, ws, isConnected, statusDot, statusText, timers, heartbeats,
          eventsContainer, seenEventKeys, renderCount, fpsCounter, statsGrid,
          votingStatus, motionView, backfill, produced, failures, lastOp, probe>>

connVars == <<sockets, ws, isConnected, statusDot, statusText, timers>>
bufferVars == <<eventsContainer, seenEventKeys, renderCount>>
statsVars == <<fpsCounter, statsGrid, votingStatus, motionView>>

(***************************************************************************)
(* Program constants                                                       *)
(***************************************************************************)
MaxEvents == 20
ReconnectDelay == 3000
HeartbeatInterval == 30000

(***************************************************************************)
(* Bounds of the model                                                     *)
(***************************************************************************)
MaxSockets == 2        \* WebSocket objects that can exist at the same time
MaxTimers == 2         \* reconnect timeouts that can be pending at the same time
TickMs == 1000         \* granularity of the passage of time
MaxProduced == 23      \* events the server generates in the buffer specification
MaxPreload == 22       \* events the server holds before the page loads
MaxBackfill == 22      \* longest array /api/events returns
MaxTraffic == 1        \* events the server generates in the connection specification
MaxFailures == 3       \* saturation of the failed-attempt counter
MaxVotes == 9          \* largest current_votes of the voting specification
MaxRequired == 6       \* largest votes_required of the voting specification
MaxUptimeSteps == 60   \* uptimes of the uptime specification: multiples of 1799 s

Min(a, b) == IF a < b THEN a ELSE b
Max(a, b) == IF a > b THEN a ELSE b

(***************************************************************************)
(* JavaScript values: number, string (a sequence of characters), undefined *)
(***************************************************************************)
Num(n) == [t |-> "number", n |-> n, s |-> <<>>]
Str(s) == [t |-> "string", n |-> 0, s |-> s]
Undefined == [t |-> "undefined", n |-> 0, s |-> <<>>]

Truthy(v) == \/ v.t = "number" /\ v.n # 0
             \/ v.t = "string" /\ v.s # <<>>

DigitChar == <<"0", "1", "2", "3", "4", "5", "6", "7", "8", "9">>

RECURSIVE Digits(_)
Digits(n) == IF n < 10 THEN <<DigitChar[n + 1]>>
             ELSE Digits(n \div 10) \o <<DigitChar[(n % 10) + 1]>>

\* `${v}` in a template literal
JsString(v) == CASE v.t = "number" -> Digits(v.n)
                 [] v.t = "string" -> v.s
                 [] OTHER -> <<"u", "n", "d", "e", "f", "i", "n", "e", "d">>

(***************************************************************************)
(* Detection events.  defined = FALSE is a frame whose data is undefined.  *)
(***************************************************************************)
Event(id, ts, cls, conf, fn, zone) ==
    [defined |-> TRUE, id |-> id, timestamp |-> ts, class_name |-> cls,
     confidence |-> conf, frame_number |-> fn, zone |-> zone]

UndefinedEvent ==
    [defined |-> FALSE, id |-> Undefined, timestamp |-> Undefined,
     class_name |-> Undefined, confidence |-> Undefined,
     frame_number |-> Undefined, zone |-> Undefined]

ClassNames == <<Str(<<"c", "a", "t">>), Str(<<"d", "o", "g">>)>>

\* The i-th event the server generates.  Every third one carries no id
\* and every fourth one no zone; timestamps and frame numbers grow with i.
EventOf(i) ==
    Event(IF i % 3 = 0 THEN Undefined ELSE Num(i),
          Num(1000 + i),
          ClassNames[(i % 2) + 1],
          Num(90),
          Num(10 * i),
          IF i % 4 = 0 THEN Undefined ELSE Str(<<"z", "1">>))

\* a key that mixes the class name into the id form
eventKeyIdAndClass(e) ==
    IF e.defined /\ e.id.t = "number"
    THEN <<"i", "d", ":">> \o JsString(e.id) \o <<"|">> \o JsString(e.class_name)
    ELSE <<"k", ":">> \o JsString(e.timestamp)

eventKey(e) ==
    IF e.defined /\ e.id.t = "number"
    THEN <<"i", "d", ":">> \o JsString(e.id)
    ELSE LET ts == IF e.defined /\ Truthy(e.timestamp) THEN JsString(e.timestamp) ELSE <<>>
             cls == IF e.defined /\ Truthy(e.class_name) THEN JsString(e.class_name) ELSE <<>>
             fn == IF e.defined /\ e.frame_number.t # "undefined"
                   THEN JsString(e.frame_number) ELSE <<>>
             zone == IF e.defined /\ Truthy(e.zone) THEN JsString(e.zone) ELSE <<>>
         IN <<"k", ":">> \o ts \o <<"|">> \o cls \o <<"|">> \o fn \o <<"|">> \o zone

(***************************************************************************)
(* addEvent on the buffer [list, seen, renders, threw]                     *)
(***************************************************************************)
Buffer(list, seen, renders, threw) ==
    [list |-> list, seen |-> seen, renders |-> renders, threw |-> threw]

\* addEvent without the seen-key check (the revision in src/unnamed/part_000)
addEventNoDedup(buf, e) ==
    IF ~e.defined THEN [buf EXCEPT !.threw = TRUE]
    ELSE LET ins == <<e>> \o buf.list
         IN Buffer(IF Len(ins) > MaxEvents THEN SubSeq(ins, 1, Len(ins) - 1) ELSE ins,
                   buf.seen \cup {eventKey(e)}, buf.renders + 1, buf.threw)

\* addEvent that never removes the last child
addEventNoCap(buf, e) ==
    LET key == eventKey(e) IN
    IF key \in buf.seen THEN buf
    ELSE IF ~e.defined THEN [buf EXCEPT !.seen = @ \cup {key}, !.threw = TRUE]
    ELSE Buffer(<<e>> \o buf.list, buf.seen \cup {key}, buf.renders + 1, buf.threw)

\* addEvent that forgets the key of the entry the cap removes
addEventForgetsEvicted(buf, e) ==
    LET key == eventKey(e) IN
    IF key \in buf.seen THEN buf
    ELSE IF ~e.defined THEN [buf EXCEPT !.seen = @ \cup {key}, !.threw = TRUE]
    ELSE LET ins == <<e>> \o buf.list
         IN IF Len(ins) > MaxEvents
            THEN Buffer(SubSeq(ins, 1, Len(ins) - 1),
                        (buf.seen \cup {key}) \ {eventKey(ins[Len(ins)])},
                        buf.renders + 1, buf.threw)
            ELSE Buffer(ins, buf.seen \cup {key}, buf.renders + 1, buf.threw)

\* addEvent that appends at the end and removes the first child
addEventAppend(buf, e) ==
    LET key == eventKey(e) IN
    IF key \in buf.seen THEN buf
    ELSE IF ~e.defined THEN [buf EXCEPT !.seen = @ \cup {key}, !.threw = TRUE]
    ELSE LET ins == buf.list \o <<e>>
         IN Buffer(IF Len(ins) > MaxEvents THEN SubSeq(ins, 2, Len(ins)) ELSE ins,
                   buf.seen \cup {key}, buf.renders + 1, buf.threw)

addEvent(buf, e) ==
    LET key == eventKey(e) IN
    IF key \in buf.seen THEN buf
    ELSE IF ~e.defined
         \* eventData.class_name of undefined throws after the key was added
         THEN [buf EXCEPT !.seen = @ \cup {key}, !.threw = TRUE]
    ELSE LET ins == <<e>> \o buf.list
         IN Buffer(IF Len(ins) > MaxEvents THEN SubSeq(ins, 1, Len(ins) - 1) ELSE ins,
                   buf.seen \cup {key}, buf.renders + 1, buf.threw)

CurrentBuffer == Buffer(eventsContainer, seenEventKeys, renderCount, FALSE)

\* the loop of loadRecentEvents walking the array from its first element
RECURSIVE seedForward(_, _, _)
seedForward(buf, events, i) ==
    IF i < 1 \/ buf.threw THEN buf
    ELSE seedForward(addEvent(buf, events[Len(events) - i + 1]), events, i - 1)

\* the for loop of loadRecentEvents: i from events.length - 1 down to 0;
\* an exception leaves the loop (it is caught by the enclosing try)
RECURSIVE seedLoop(_, _, _)
seedLoop(buf, events, i) ==
    IF i < 1 \/ buf.threw THEN buf
    ELSE seedLoop(addEvent(buf, events[i]), events, i - 1)

\* the array /api/events returns: the m most recent events, newest first
RecentEvents(n, m) == [j \in 1..m |-> EventOf(n - j + 1)]

(***************************************************************************)
(* Stats snapshots and their projection                                    *)
(***************************************************************************)
Voting(cv, vr, hl, wsz) ==
    [current_votes |-> cv, votes_required |-> vr, history_length |-> hl, window_size |-> wsz]

Motion(detected, area, contours) ==
    [present |-> TRUE, detected |-> detected, area |-> area, contours |-> contours]

NoMotion == [present |-> FALSE, detected |-> FALSE, area |-> Undefined, contours |-> Undefined]

\* temporal_voting is a sequence of <<class name, VotingClassStatus>> entries
\* (Object.entries order); hasVoting = FALSE is an absent field
Snapshot(fps, td, as, fn, up, hasVoting, voting, motion) ==
    [defined |-> TRUE, fps |-> fps, total_detections |-> td, alerts_sent |-> as,
     frame_number |-> fn, uptime |-> up, hasVoting |-> hasVoting,
     temporal_voting |-> voting, motion |-> motion]

UndefinedSnapshot ==
    [defined |-> FALSE, fps |-> Undefined, total_detections |-> Undefined,
     alerts_sent |-> Undefined, frame_number |-> Undefined, uptime |-> Undefined,
     hasVoting |-> FALSE, temporal_voting |-> <<>>, motion |-> NoMotion]

\* v || 0
OrZero(v) == IF Truthy(v) THEN v ELSE Num(0)

\* an uptime whose minutes are not reduced modulo the hour
formatUptimeTotalMinutes(seconds) ==
    LET hours == seconds \div 3600
        minutes == seconds \div 60
    IN Digits(hours) \o <<"h", " ">> \o Digits(minutes) \o <<"m">>

formatUptime(seconds) ==
    LET hours == seconds \div 3600
        minutes == (seconds % 3600) \div 60
    IN Digits(hours) \o <<"h", " ">> \o Digits(minutes) \o <<"m">>

updateStatsGrid(stats) ==
    <<OrZero(stats.total_detections), OrZero(stats.alerts_sent),
      OrZero(stats.frame_number), Str(formatUptime(OrZero(stats.uptime).n))>>

\* a row whose bar width is not clamped
votingRowUnclamped(entry) ==
    LET data == entry[2]
        num == data.current_votes * 100
        den == data.votes_required
    IN [className |-> entry[1],
        current_votes |-> data.current_votes, votes_required |-> data.votes_required,
        complete |-> IF den = 0 THEN num > 0
                     ELSE IF den > 0 THEN num >= 100 * den ELSE num <= 100 * den,
        width |-> <<num, den>>,
        history_length |-> data.history_length, window_size |-> data.window_size]

\* One row of updateVotingStatus.  percentage = current_votes / votes_required * 100
\* is kept as the fraction num / den; a zero divisor gives Infinity (num > 0)
\* or NaN (num = 0) as in IEEE arithmetic.
votingRow(entry) ==
    LET data == entry[2]
        num == data.current_votes * 100
        den == data.votes_required
        isNaN == den = 0 /\ num = 0
        atLeast100 == IF den = 0 THEN num > 0
                      ELSE IF den > 0 THEN num >= 100 * den ELSE num <= 100 * den
    IN [className |-> entry[1],
        current_votes |-> data.current_votes, votes_required |-> data.votes_required,
        complete |-> atLeast100,
        \* Math.min(percentage, 100): <<num, den>> stands for num / den
        width |-> IF isNaN THEN <<0, 0>> ELSE IF atLeast100 THEN <<100, 1>> ELSE <<num, den>>,
        history_length |-> data.history_length, window_size |-> data.window_size]

updateVotingStatus(votingData) == [k \in 1..Len(votingData) |-> votingRow(votingData[k])]

updateMotionStatus(motionData) ==
    [active |-> motionData.detected,
     text |-> IF motionData.detected THEN "Motion Detected" ELSE "No Motion",
     area |-> OrZero(motionData.area), contours |-> OrZero(motionData.contours)]

\* stats.fps.toFixed(1), fps in hundredths: rounded to tenths
fpsText(fps) == (fps.n + 5) \div 10

\* updateStats that blanks the voting and motion views a snapshot does not carry
updateStatsBlanksAbsent(view, stats) ==
    IF ~stats.defined THEN [view EXCEPT !.threw = TRUE]
    ELSE [fps |-> IF Truthy(stats.fps) THEN fpsText(stats.fps) ELSE view.fps,
          grid |-> updateStatsGrid(stats),
          voting |-> IF stats.hasVoting THEN updateVotingStatus(stats.temporal_voting)
                     ELSE <<>>,
          motion |-> IF stats.motion.present THEN updateMotionStatus(stats.motion)
                     ELSE updateMotionStatus(NoMotion),
          threw |-> view.threw]

\* updateStats on the display [fps, grid, voting, motion, threw]
updateStats(view, stats) ==
    IF ~stats.defined THEN [view EXCEPT !.threw = TRUE]
    ELSE [fps |-> IF Truthy(stats.fps) THEN fpsText(stats.fps) ELSE view.fps,
          grid |-> updateStatsGrid(stats),
          voting |-> IF stats.hasVoting THEN updateVotingStatus(stats.temporal_voting)
                     ELSE view.voting,
          motion |-> IF stats.motion.present THEN updateMotionStatus(stats.motion)
                     ELSE view.motion,
          threw |-> view.threw]

\* the fields a snapshot carries
PresentFields(stats) ==
    {f \in {"fps", "total_detections", "alerts_sent", "frame_number", "uptime"} :
        stats[f].t # "undefined"}
    \cup (IF stats.hasVoting THEN {"temporal_voting"} ELSE {})
    \cup (IF stats.motion.present THEN {"motion"} ELSE {})

CurrentView == [fps |-> fpsCounter, grid |-> statsGrid, voting |-> votingStatus,
                motion |-> motionView, threw |-> FALSE]

\* what the page template shows before the first snapshot
InitialGrid == <<Num(0), Num(0), Num(0), Str(formatUptime(0))>>
InitialMotion == [active |-> FALSE, text |-> "No Motion", area |-> Num(0), contours |-> Num(0)]

(***************************************************************************)
(* WebSocket objects, timers                                               *)
(***************************************************************************)
Slots == 1..MaxSockets
FreeSlot == [readyState |-> "NONE", closePending |-> FALSE]
Socket(state, pending) == [readyState |-> state, closePending |-> pending]

\* a socket that will run no callback any more
Dead(sock) == sock.readyState \in {"NONE", "CLOSED"} /\ ~sock.closePending
Active(sock) == sock.readyState \in {"CONNECTING", "OPEN"}
ActiveSockets == {i \in Slots : Active(sockets[i])}
\* sockets whose close callback has not run yet
UnclosedSockets == {i \in Slots : ~Dead(sockets[i])}

Remove(seq, k) == [j \in 1..(Len(seq) - 1) |-> IF j < k THEN seq[j] ELSE seq[j + 1]]

\* setTimeout(() => this.connectWebSocket(), 3000) of onclose, scheduled twice
ScheduleReconnectTwice(ts) ==
    ts \o <<[remaining |-> ReconnectDelay, age |-> 0], [remaining |-> ReconnectDelay, age |-> 0]>>

\* a reconnect that gives up after the second failed attempt
ScheduleReconnectCapped(ts) ==
    IF failures >= 2 THEN ts ELSE Append(ts, [remaining |-> ReconnectDelay, age |-> 0])

\* a reconnect timeout of zero
ScheduleReconnectNow(ts) == Append(ts, [remaining |-> 0, age |-> 0])

\* setTimeout(() => this.connectWebSocket(), 3000) of onclose
ScheduleReconnect(ts) == Append(ts, [remaining |-> ReconnectDelay, age |-> 0])

\* a transport error that does not reschedule anything: the timers are left alone
onerrorTimersReconnect(ts) == Append(ts, [remaining |-> ReconnectDelay, age |-> 0])
onerrorTimers(ts) == ts

\* lastOp: the callback (op), the kind of frame or outcome, whether an
\* exception left the callback, the socket it ran on, the age of the timeout
\* that expired, whether a heartbeat was sent, the EventKey of the frame, the
\* length of the backfill array, the number of events rendered and the
\* fields a stats snapshot carried.
Op(op, kind, sock) ==
    [op |-> op, kind |-> kind, threw |-> FALSE, sock |-> sock, age |-> 0,
     sent |-> FALSE, key |-> <<>>, len |-> 0, added |-> 0, fields |-> {}]

\* this.ws = new WebSocket(wsUrl): the object takes the first slot no live
\* socket occupies; sockets that can run no callback any more are dropped
NewSlot == CHOOSE s \in Slots : Dead(sockets[s]) /\ \A r \in Slots : Dead(sockets[r]) => s <= r
connectWebSocket ==
    /\ \E s \in Slots : Dead(sockets[s])
    /\ sockets' = [s \in Slots |-> IF s = NewSlot THEN Socket("CONNECTING", FALSE)
                                   ELSE IF Dead(sockets[s]) THEN FreeSlot ELSE sockets[s]]
    /\ ws' = NewSlot

(***************************************************************************)
(* Initial state: the constructor has run (connectWebSocket, updateElements,*)
(* loadRecentEvents up to its first await); the server already holds       *)
(* `preload` events.                                                       *)
(***************************************************************************)
InitBase(preloads) ==
    /\ sockets = [s \in Slots |-> IF s = 1 THEN Socket("CONNECTING", FALSE) ELSE FreeSlot]
    /\ ws = 1
    /\ isConnected = FALSE
    /\ statusDot = "" /\ statusText = ""
    /\ timers = <<>>
    /\ heartbeats = <<HeartbeatInterval>>
    /\ eventsContainer = <<>>
    /\ seenEventKeys = {}
    /\ renderCount = 0
    /\ fpsCounter = 0
    /\ statsGrid = InitialGrid
    /\ votingStatus = <<>>
    /\ motionView = InitialMotion
    /\ backfill = "pending"
    /\ produced \in preloads
    /\ failures = 0
    /\ lastOp = Op("constructor", "", 1)

NoProbe == [stage |-> "none"]

InitWith(preloads) == InitBase(preloads) /\ probe = NoProbe

(***************************************************************************)
(* Channel callbacks                                                       *)
(***************************************************************************)
OnOpen(i) ==
    /\ sockets[i].readyState = "CONNECTING"
    /\ sockets' = [sockets EXCEPT ![i] = Socket("OPEN", FALSE)]
    /\ isConnected' = TRUE
    /\ statusDot' = "connected" /\ statusText' = "Connected"
    /\ failures' = 0
    /\ lastOp' = Op("onopen", "", i)
    /\ UNCHANGED <<ws, timers, heartbeats, bufferVars, statsVars, probe, backfill, produced>>

\* Inbound frames.  kind: "malformed" (JSON.parse throws), "null" (parses to
\* null), "stats", "event", "other" (another type), "notype" (no type field)
Frame(kind, ev, stats) == [kind |-> kind, ev |-> ev, stats |-> stats]

StatsInputs ==
    { Snapshot(Num(1234), Num(7), Num(2), Num(40), Num(3661), TRUE,
               <<<<"cat", Voting(3, 5, 4, 10)>>>>, Motion(TRUE, Num(50), Num(2))),
      Snapshot(Undefined, Num(8), Undefined, Num(41), Undefined, FALSE, <<>>, NoMotion),
      UndefinedSnapshot }

PlainFrames ==
    {Frame(k, UndefinedEvent, UndefinedSnapshot) : k \in {"malformed", "null", "other", "notype"}}
    \cup {Frame("stats", UndefinedEvent, st) : st \in StatsInputs}
    \cup {Frame("event", UndefinedEvent, UndefinedSnapshot)}

\* ws.onmessage with a frame that carries no server event
OnMessage(i, frame) ==
    /\ sockets[i].readyState = "OPEN"
    /\ LET throwsEarly == frame.kind \in {"malformed", "null"}
           buf == IF frame.kind = "event" THEN addEvent(CurrentBuffer, frame.ev)
                  ELSE CurrentBuffer
           view == IF frame.kind = "stats" THEN updateStats(CurrentView, frame.stats)
                   ELSE CurrentView
       IN /\ eventsContainer' = buf.list
          /\ seenEventKeys' = buf.seen
          /\ renderCount' = buf.renders
          /\ fpsCounter' = view.fps
          /\ statsGrid' = view.grid
          /\ votingStatus' = view.voting
          /\ motionView' = view.motion
          /\ lastOp' = [Op("onmessage", frame.kind, i) EXCEPT
                          !.threw = throwsEarly \/ buf.threw \/ view.threw,
                          !.key = IF frame.kind = "event" THEN eventKey(frame.ev) ELSE <<>>,
                          !.added = buf.renders - renderCount,
                          !.fields = IF frame.kind = "stats" THEN PresentFields(frame.stats)
                                     ELSE {}]
    /\ UNCHANGED <<connVars, heartbeats, backfill, failures>>

\* a live `event` frame for the event the server generates now
OnFreshEvent(i, cap) ==
    /\ produced < cap
    /\ produced' = produced + 1
    /\ probe' = probe
    /\ OnMessage(i, Frame("event", EventOf(produced + 1), UndefinedSnapshot))

\* a live `event` frame for an event the server generated earlier
OnRepeatedEvent(i, k) ==
    /\ k \in 1..produced
    /\ produced' = produced
    /\ probe' = probe
    /\ OnMessage(i, Frame("event", EventOf(k), UndefinedSnapshot))

OnPlainMessage(i, frame) ==
    /\ produced' = produced
    /\ probe' = probe
    /\ OnMessage(i, frame)

\* the server generates an event while no channel of this client is open
ServerProduce(cap) ==
    /\ produced < cap
    /\ \A i \in Slots : sockets[i].readyState # "OPEN"
    /\ produced' = produced + 1
    /\ lastOp' = Op("produce", "", 0)
    /\ UNCHANGED <<connVars, heartbeats, bufferVars, statsVars, probe, backfill, failures>>

\* The transport fails: the socket becomes CLOSED, the error event is
\* dispatched and a close event will follow.
OnError(i) ==
    /\ Active(sockets[i])
    /\ Len(onerrorTimers(timers)) <= MaxTimers
    /\ sockets' = [sockets EXCEPT ![i] = Socket("CLOSED", TRUE)]
    /\ statusDot' = "error" /\ statusText' = "Connection Error"
    /\ timers' = onerrorTimers(timers)
    /\ lastOp' = Op("onerror", "", i)
    /\ UNCHANGED <<ws, isConnected, heartbeats, bufferVars, statsVars, probe, backfill,
                   produced, failures>>

\* a close callback that forgets to clear this.isConnected
OnCloseKeepsFlag(i) ==
    /\ sockets[i].readyState = "OPEN" \/ sockets[i].closePending
    /\ Len(ScheduleReconnect(timers)) <= MaxTimers
    /\ sockets' = [sockets EXCEPT ![i] = IF ws = i THEN Socket("CLOSED", FALSE) ELSE FreeSlot]
    /\ isConnected' = isConnected
    /\ statusDot' = "error" /\ statusText' = "Disconnected"
    /\ timers' = ScheduleReconnect(timers)
    /\ failures' = Min(failures + 1, MaxFailures)
    /\ lastOp' = Op("onclose", IF sockets[i].closePending THEN "failed" ELSE "clean", i)
    /\ UNCHANGED <<ws, heartbeats, bufferVars, statsVars, probe, backfill, produced>>

\* The close event: after a transport failure, or a clean close of an open channel.
OnClose(i) ==
    /\ sockets[i].readyState = "OPEN" \/ sockets[i].closePending
    /\ Len(ScheduleReconnect(timers)) <= MaxTimers
    /\ sockets' = [sockets EXCEPT ![i] = IF ws = i THEN Socket("CLOSED", FALSE) ELSE FreeSlot]
    /\ isConnected' = FALSE
    /\ statusDot' = "error" /\ statusText' = "Disconnected"
    /\ timers' = ScheduleReconnect(timers)
    /\ failures' = Min(failures + 1, MaxFailures)
    /\ lastOp' = Op("onclose", IF sockets[i].closePending THEN "failed" ELSE "clean", i)
    /\ UNCHANGED <<ws, heartbeats, bufferVars, statsVars, probe, backfill, produced>>

\* a reconnect timer that rearms itself (setInterval in place of setTimeout)
ReconnectTimerRepeats(k) ==
    /\ k \in 1..Len(timers)
    /\ timers[k].remaining = 0
    /\ timers' = [timers EXCEPT ![k] = [remaining |-> ReconnectDelay, age |-> 0]]
    /\ connectWebSocket
    /\ lastOp' = [Op("reconnect", "", NewSlot) EXCEPT !.age = timers[k].age]
    /\ UNCHANGED <<isConnected, statusDot, statusText, heartbeats, bufferVars, statsVars, probe,
                   backfill, produced, failures>>

\* The timeout set by onclose expires and calls connectWebSocket.
ReconnectTimer(k) ==
    /\ k \in 1..Len(timers)
    /\ timers[k].remaining = 0
    /\ timers' = Remove(timers, k)
    /\ connectWebSocket
    /\ lastOp' = [Op("reconnect", "", NewSlot) EXCEPT !.age = timers[k].age]
    /\ UNCHANGED <<isConnected, statusDot, statusText, heartbeats, bufferVars, statsVars, probe,
                   backfill, produced, failures>>

\* a heartbeat that only checks that this.ws is set
heartbeatSendsUnchecked == ws # 0

\* if (this.ws && this.ws.readyState === WebSocket.OPEN)
heartbeatSends == ws # 0 /\ sockets[ws].readyState = "OPEN"

\* a heartbeat set with setTimeout: the timer is gone after its first tick
HeartbeatOnce(h) ==
    /\ h \in 1..Len(heartbeats)
    /\ heartbeats[h] = 0
    /\ heartbeats' = Remove(heartbeats, h)
    /\ lastOp' = [Op("heartbeat", "", ws) EXCEPT
                    !.sent = heartbeatSends,
                    !.threw = heartbeatSends /\ sockets[ws].readyState = "CONNECTING"]
    /\ UNCHANGED <<connVars, bufferVars, statsVars, probe, backfill, produced, failures>>

\* The interval callback of updateElements.  send() on a socket that is
\* still connecting throws; on a closed socket it discards the frame.
Heartbeat(h) ==
    /\ h \in 1..Len(heartbeats)
    /\ heartbeats[h] = 0
    /\ heartbeats' = [heartbeats EXCEPT ![h] = HeartbeatInterval]
    /\ lastOp' = [Op("heartbeat", "", ws) EXCEPT
                    !.sent = heartbeatSends,
                    !.threw = heartbeatSends /\ sockets[ws].readyState = "CONNECTING"]
    /\ UNCHANGED <<connVars, bufferVars, statsVars, probe, backfill, produced, failures>>

\* TickMs milliseconds pass.
Tick ==
    /\ \/ \E k \in 1..Len(timers) : timers[k].remaining > 0
       \/ \E h \in 1..Len(heartbeats) : heartbeats[h] > 0
    /\ timers' = [k \in 1..Len(timers) |->
                    [remaining |-> Max(0, timers[k].remaining - TickMs),
                     age |-> Min(timers[k].age + TickMs, ReconnectDelay + TickMs)]]
    /\ heartbeats' = [h \in 1..Len(heartbeats) |-> Max(0, heartbeats[h] - TickMs)]
    /\ lastOp' = Op("tick", "", 0)
    /\ UNCHANGED <<sockets, ws, isConnected, statusDot, statusText, bufferVars, statsVars, probe,
                   backfill, produced, failures>>

(***************************************************************************)
(* loadRecentEvents after its await                                        *)
(***************************************************************************)
\* fetch resolved with res.ok and {events: the m most recent events, newest first}
BackfillLoaded(m) ==
    /\ backfill = "pending"
    /\ m \in 0..Min(produced, MaxBackfill)
    /\ LET events == RecentEvents(produced, m)
           buf == seedLoop(CurrentBuffer, events, Len(events))
       IN /\ eventsContainer' = buf.list
          /\ seenEventKeys' = buf.seen
          /\ renderCount' = buf.renders
          /\ lastOp' = [Op("backfill", "ok", 0) EXCEPT
                          !.len = m, !.added = buf.renders - renderCount]
    /\ backfill' = "done"
    /\ UNCHANGED <<connVars, heartbeats, statsVars, probe, produced, failures>>

\* a loader that issues the request again after a failure
BackfillFailedRetries ==
    /\ backfill = "pending"
    /\ backfill' = "pending"
    /\ lastOp' = Op("backfill", "failed", 0)
    /\ UNCHANGED <<connVars, heartbeats, bufferVars, statsVars, probe, produced, failures>>

\* fetch rejected, res.ok false, or res.json() rejected
BackfillFailed ==
    /\ backfill = "pending"
    /\ backfill' = "failed"
    /\ lastOp' = Op("backfill", "failed", 0)
    /\ UNCHANGED <<connVars, heartbeats, bufferVars, statsVars, probe, produced, failures>>

(***************************************************************************)
(* Specifications                                                          *)
(***************************************************************************)
\* The whole client with light event traffic.
Init == InitWith(0..1)

Next ==
    \/ \E i \in Slots : OnOpen(i)
    \/ \E i \in Slots : \E f \in PlainFrames : OnPlainMessage(i, f)
    \/ \E i \in Slots : OnFreshEvent(i, MaxTraffic)
    \/ \E i \in Slots : \E k \in 1..MaxTraffic : OnRepeatedEvent(i, k)
    \/ ServerProduce(MaxTraffic)
    \/ \E i \in Slots : OnError(i)
    \/ \E i \in Slots : OnClose(i)
    \/ \E k \in 1..MaxTimers : ReconnectTimer(k)
    \/ \E h \in 1..Len(heartbeats) : Heartbeat(h)
    \/ Tick
    \/ \E m \in 0..MaxTraffic : BackfillLoaded(m)
    \/ BackfillFailed

Spec == Init /\ [][Next]_vars

\* The event buffer under a long stream: the channel stays open, the server
\* held up to MaxPreload events before the page loaded, and a repeated live
\* frame is one the client has already admitted.
InitBuffer == InitWith(0..MaxPreload)

\* the events a live frame repeats: the oldest, the newest, and the one the
\* 20-entry cap has just pushed out
RepeatChoices == {1, produced, produced - MaxEvents} \cap (1..produced)

NextBuffer ==
    \/ \E i \in Slots : OnOpen(i)
    \/ \E i \in Slots : OnFreshEvent(i, MaxProduced)
    \/ \E i \in Slots : \E k \in RepeatChoices :
          eventKey(EventOf(k)) \in seenEventKeys /\ OnRepeatedEvent(i, k)
    \/ \E m \in 0..MaxBackfill : BackfillLoaded(m)
    \/ BackfillFailed

SpecBuffer == InitBuffer /\ [][NextBuffer]_vars

\* The stats projection under any sequence of full and partial snapshots.
StatsCases ==
    { Snapshot(Num(1234), Num(7), Num(2), Num(40), Num(3661), TRUE,
               <<<<"cat", Voting(3, 5, 4, 10)>>>>, Motion(TRUE, Num(50), Num(2))),
      Snapshot(Num(2000), Num(9), Num(3), Num(55), Num(7322), TRUE,
               <<<<"dog", Voting(6, 5, 10, 10)>>>>, Motion(FALSE, Undefined, Undefined)),
      Snapshot(Num(999), Undefined, Undefined, Undefined, Undefined, FALSE, <<>>, NoMotion),
      Snapshot(Undefined, Num(8), Undefined, Num(41), Undefined, FALSE, <<>>, NoMotion),
      Snapshot(Undefined, Undefined, Undefined, Undefined, Undefined, TRUE,
               <<<<"cat", Voting(5, 5, 10, 10)>>>>, NoMotion),
      Snapshot(Undefined, Undefined, Undefined, Undefined, Undefined, FALSE, <<>>,
               Motion(TRUE, Num(10), Num(1))),
      Snapshot(Undefined, Undefined, Undefined, Undefined, Undefined, FALSE, <<>>, NoMotion),
      \* fps present but zero
      Snapshot(Num(0), Undefined, Num(5), Undefined, Num(59), FALSE, <<>>, NoMotion),
      Snapshot(Num(1500), Undefined, Undefined, Undefined, Undefined, FALSE, <<>>,
               Motion(FALSE, Num(0), Num(0))),
      \* a stats frame without data
      UndefinedSnapshot }

NextStats ==
    \/ \E i \in Slots : OnOpen(i)
    \/ \E i \in Slots : \E st \in StatsCases :
          OnPlainMessage(i, Frame("stats", UndefinedEvent, st))

SpecStats == InitWith({0}) /\ [][NextStats]_vars

\* eventKey on pairs of events: the key of each is computed, then both are
\* admitted one after the other.
EventCases ==
    {Event(id, ts, cls, IF ts = Num(5) THEN Num(90) ELSE Num(50), fn, zone) :
        id \in {Undefined, Num(7), Num(8)},
        ts \in {Num(5), Num(6)},
        cls \in {Str(<<"x">>), Str(<<"x", "|", "1">>)},
        fn \in {Num(1), Num(2)},
        zone \in {Undefined, Str(<<>>), Str(<<"y">>), Str(<<"2", "|", "y">>)}}

InitKey ==
    /\ InitBase({0})
    /\ probe \in [stage : {"input"}, a : EventCases, b : EventCases, ka : {<<>>}, kb : {<<>>}]

ComputeKeys ==
    /\ probe.stage = "input"
    /\ probe' = [probe EXCEPT !.stage = "keyed", !.ka = eventKey(probe.a),
                              !.kb = eventKey(probe.b)]
    /\ UNCHANGED <<connVars, heartbeats, bufferVars, statsVars, backfill, produced,
                   failures, lastOp>>

AdmitFirst(i) ==
    /\ probe.stage = "keyed"
    /\ probe' = [probe EXCEPT !.stage = "first"]
    /\ produced' = produced
    /\ OnMessage(i, Frame("event", probe.a, UndefinedSnapshot))

AdmitSecond(i) ==
    /\ probe.stage = "first"
    /\ probe' = [probe EXCEPT !.stage = "second"]
    /\ produced' = produced
    /\ OnMessage(i, Frame("event", probe.b, UndefinedSnapshot))

NextKey ==
    \/ \E i \in Slots : OnOpen(i)
    \/ ComputeKeys
    \/ \E i \in Slots : AdmitFirst(i)
    \/ \E i \in Slots : AdmitSecond(i)

SpecKey == InitKey /\ [][NextKey]_vars

\* updateVotingStatus on one class with current_votes of 0..MaxVotes and
\* votes_required of 1..MaxRequired, delivered in a stats frame.
InitVoting ==
    /\ InitBase({0})
    /\ probe \in [stage : {"input"}, cv : 0..MaxVotes, vr : 1..MaxRequired]

ApplyVoting(i) ==
    /\ probe.stage = "input"
    /\ probe' = [probe EXCEPT !.stage = "applied"]
    /\ produced' = produced
    /\ OnMessage(i, Frame("stats", UndefinedEvent,
                     Snapshot(Undefined, Undefined, Undefined, Undefined, Undefined, TRUE,
                              <<<<"cat", Voting(probe.cv, probe.vr, probe.cv, 10)>>>>,
                              NoMotion)))

NextVoting ==
    \/ \E i \in Slots : OnOpen(i)
    \/ \E i \in Slots : ApplyVoting(i)

SpecVoting == InitVoting /\ [][NextVoting]_vars

\* formatUptime on a stats frame that carries s seconds under the key
\* 'uptime', the one updateStatsGrid reads, or under the key 'uptime_seconds',
\* which no code reads: such a snapshot has stats.uptime undefined.
UptimeCases == {0, 3661} \cup {1799 * k : k \in 0..MaxUptimeSteps}

InitUptime ==
    /\ InitBase({0})
    /\ probe \in [stage : {"input"}, s : UptimeCases,
                  field : {"uptime", "uptime_seconds"}]

ApplyUptime(i) ==
    /\ probe.stage = "input"
    /\ probe' = [probe EXCEPT !.stage = "applied"]
    /\ produced' = produced
    /\ OnMessage(i, Frame("stats", UndefinedEvent,
                     Snapshot(Undefined, Undefined, Undefined, Undefined,
                              IF probe.field = "uptime" THEN Num(probe.s) ELSE Undefined,
                              FALSE, <<>>, NoMotion)))

NextUptime ==
    \/ \E i \in Slots : OnOpen(i)
    \/ \E i \in Slots : ApplyUptime(i)

SpecUptime == InitUptime /\ [][NextUptime]_vars

\* The channel lifecycle alone (inbound frames and the backfill do not touch
\* the connection state), with the scheduling the event loop guarantees: time
\* passes, and a timeout that has expired runs its callback.
NextLive ==
    \/ \E i \in Slots : OnOpen(i)
    \/ \E i \in Slots : OnError(i)
    \/ \E i \in Slots : OnClose(i)
    \/ \E k \in 1..MaxTimers : ReconnectTimer(k)
    \/ \E h \in 1..Len(heartbeats) : Heartbeat(h)
    \/ Tick

SpecLive ==
    /\ Init /\ [][NextLive]_vars
    /\ WF_vars(Tick)
    /\ WF_vars(\E k \in 1..MaxTimers : ReconnectTimer(k))

(***************************************************************************)
(* Properties                                                              *)
(***************************************************************************)
Keys(list) == {eventKey(list[i]) : i \in 1..Len(list)}
LiveEventStep(op) == op.op = "onmessage" /\ op.kind = "event"

\* C1: whatever backfill and live `event` frames were admitted, the event
\* list never holds more than 20 entries.
C1_AtMostTwentyEntries == Len(eventsContainer) <= 20

\* more than 20 events were rendered and the list is full
C1_Witness == Len(eventsContainer) = 20 /\ renderCount > 20

\* C2: no two entries of the event list have the same EventKey.
C2_NoTwoEntriesShareKey ==
    \A i, j \in 1..Len(eventsContainer) :
        i # j => eventKey(eventsContainer[i]) # eventKey(eventsContainer[j])

\* after the backfill, a live frame repeated the key of an entry of the list
C2_Witness ==
    /\ backfill = "done"
    /\ LiveEventStep(lastOp) /\ lastOp.added = 0
    /\ lastOp.key \in Keys(eventsContainer)
    /\ Len(eventsContainer) >= 2

\* C3: addEvent is idempotent per EventKey: after an event was admitted its
\* key is in the seen-key set, and admitting an event whose key is in the
\* seen-key set leaves the event list, the seen-key set and the number of
\* renders as they were.
C3_AdmitIsIdempotent ==
    [][LiveEventStep(lastOp') =>
         /\ lastOp'.key \in seenEventKeys'
         /\ lastOp'.key \in seenEventKeys => UNCHANGED bufferVars]_vars

\* a live frame was admitted a second time before the backfill completed
C3_Witness ==
    /\ backfill = "pending"
    /\ LiveEventStep(lastOp) /\ lastOp.added = 0 /\ ~lastOp.threw
    /\ renderCount >= 1

\* C4: once the backfill has been merged the event list has the most recent
\* event first: no backfill event stands in front of a live event that was
\* admitted before the backfill completed (events carry the time the server
\* generated them).
C4_BackfillKeepsNewestFirst ==
    backfill = "done" =>
        \A i, j \in 1..Len(eventsContainer) :
            i < j => eventsContainer[i].timestamp.n > eventsContainer[j].timestamp.n

\* C5: seeding the empty buffer with N distinct backfill events and then
\* admitting one live event with a fresh key yields the live event followed
\* by the backfill events from newest to older, truncated to 20 entries.
C5_SeedThenLive ==
    [][(/\ lastOp.op = "backfill" /\ lastOp.kind = "ok"
        /\ lastOp.added = lastOp.len /\ renderCount = lastOp.len
        /\ LiveEventStep(lastOp') /\ ~lastOp'.threw
        /\ lastOp'.key \notin seenEventKeys)
       => LET N == lastOp.len
              seeded == RecentEvents(produced, N)
          IN /\ Len(eventsContainer') = Min(20, N + 1)
             /\ eventKey(eventsContainer'[1]) = lastOp'.key
             /\ \A j \in 2..Len(eventsContainer') : eventsContainer'[j] = seeded[j - 1]]_vars

\* 22 seeded events and one live event: the list is truncated to the live
\* event and the 19 newest seeded ones
C5_Witness ==
    /\ LiveEventStep(lastOp) /\ lastOp.added = 1
    /\ backfill = "done" /\ renderCount = 23 /\ produced = 23
    /\ Len(eventsContainer) = 20
    /\ eventsContainer[1] = EventOf(23) /\ eventsContainer[20] = EventOf(4)

\* C6: each close schedules exactly one reconnect timeout of 3000 ms, nothing
\* else schedules one, and each timeout that expires makes exactly one
\* connectWebSocket call, no sooner than 3000 ms after the close.
C6_OneReconnectPerClose ==
    [][/\ lastOp'.op = "onclose" =>
            /\ Len(timers') = Len(timers) + 1
            /\ timers'[Len(timers')] = [remaining |-> 3000, age |-> 0]
       /\ lastOp'.op = "reconnect" =>
            /\ Len(timers') = Len(timers) - 1
            /\ lastOp'.age >= 3000
            /\ sockets'[lastOp'.sock].readyState = "CONNECTING"
            /\ Cardinality({s \in Slots : Active(sockets'[s])})
                 = Cardinality(ActiveSockets) + 1
       /\ lastOp'.op \notin {"onclose", "reconnect", "tick"} => timers' = timers
       /\ lastOp'.op # "reconnect" =>
            \A s \in Slots : sockets'[s].readyState = "CONNECTING"
                                => sockets[s].readyState = "CONNECTING"]_vars

\* a reconnect attempt was made by a timeout that had waited 3000 ms
C6_Witness == lastOp.op = "reconnect" /\ lastOp.age >= 3000 /\ timers = <<>>

\* C7: a frame that does not parse as JSON throws no error out of the message
\* handler and changes neither the event list, the seen-key set, the displayed
\* stats nor the connection state; the channel stays open.
C7_MalformedFrameIsDiscarded ==
    [][(lastOp'.op = "onmessage" /\ lastOp'.kind = "malformed") =>
          /\ ~lastOp'.threw
          /\ UNCHANGED <<bufferVars, statsVars, connVars>>]_vars

\* C8: at most one channel is connecting or open.
C8_AtMostOneActiveChannel == Cardinality(ActiveSockets) <= 1

\* a reconnect created a channel after two closes in a row
C8_Witness ==
    /\ lastOp.op = "reconnect" /\ failures >= 2
    /\ ActiveSockets = {ws}

\* C9: after every close, however many attempts have failed before, a new
\* connection attempt is eventually made, and the delay never exceeds 3000 ms.
C9_ReconnectIsPerpetual ==
    /\ \A f \in 1..MaxFailures :
         (lastOp.op = "onclose" /\ failures = f) ~> (lastOp.op = "reconnect")
    /\ [](\A k \in 1..Len(timers) : timers[k].remaining <= 3000)

\* a reconnect attempt after MaxFailures failed attempts in a row
C9_Witness == lastOp.op = "reconnect" /\ failures = MaxFailures

\* C10: a transport error sets the status to ('error', 'Connection Error')
\* and does nothing else: no timeout, no new channel, isConnected unchanged;
\* only the close callback schedules a reconnect.
C10_ErrorOnlyNotifies ==
    [][/\ lastOp'.op = "onerror" =>
            /\ statusDot' = "error" /\ statusText' = "Connection Error"
            /\ UNCHANGED <<timers, ws, isConnected, heartbeats, bufferVars, statsVars, backfill>>
            /\ \A s \in Slots : s # lastOp'.sock => sockets'[s] = sockets[s]
            /\ ~Active(sockets'[lastOp'.sock])
       /\ Len(timers') > Len(timers) => lastOp'.op = "onclose"]_vars

\* a transport error hit an open channel and left isConnected set
C10_Witness ==
    /\ lastOp.op = "onerror" /\ isConnected
    /\ statusText = "Connection Error" /\ timers = <<>>

\* C11: a heartbeat tick sends the keepalive frame only if this.ws is open at
\* that tick (and then does send it); when the channel is connecting, closed
\* or absent it sends nothing; in every case it raises no error, starts no
\* timer and changes no other state.
C11_HeartbeatOnlyWhenOpen ==
    [][lastOp'.op = "heartbeat" =>
         /\ lastOp'.sent = (IF ws = 0 THEN FALSE ELSE sockets[ws].readyState = "OPEN")
         /\ ~lastOp'.threw
         /\ Len(heartbeats') = Len(heartbeats)
         /\ UNCHANGED <<connVars, bufferVars, statsVars, backfill, produced, failures>>]_vars

\* a tick found the channel closed, with a reconnect pending, and sent nothing
C11_Witness ==
    /\ lastOp.op = "heartbeat" /\ ~lastOp.sent
    /\ sockets[ws].readyState = "CLOSED" /\ Len(timers) = 1

\* C12: after the open callback isConnected is set and the status shows
\* ('connected', 'Connected'); after the close callback, clean or not,
\* isConnected is cleared and the status shows ('error', 'Disconnected'); no
\* other callback changes isConnected.
C12_StateFollowsLifecycle ==
    [][/\ lastOp'.op = "onopen" =>
            isConnected' /\ statusDot' = "connected" /\ statusText' = "Connected"
       /\ lastOp'.op = "onclose" =>
            ~isConnected' /\ statusDot' = "error" /\ statusText' = "Disconnected"
       /\ lastOp'.op \notin {"onopen", "onclose"} => isConnected' = isConnected]_vars

\* a clean close of a connected channel cleared isConnected
C12_Witness ==
    /\ lastOp.op = "onclose" /\ lastOp.kind = "clean"
    /\ ~isConnected /\ statusDot = "error" /\ statusText = "Disconnected"

\* C13: a frame that parses but whose type is missing or is neither 'stats'
\* nor 'event' is ignored: no error is raised and the event list, the seen-key
\* set, the displayed stats and the connection state are unchanged.
C13_UnknownTypeIsIgnored ==
    [][(lastOp'.op = "onmessage" /\ lastOp'.kind \in {"null", "notype", "other"}) =>
          /\ ~lastOp'.threw
          /\ UNCHANGED <<bufferVars, statsVars, connVars>>]_vars

StatsStep(op) == op.op = "onmessage" /\ op.kind = "stats" /\ ~op.threw
CounterFields == <<"total_detections", "alerts_sent", "frame_number", "uptime">>

\* the FPS, voting and motion views keep their content when the snapshot does
\* not carry their field
OptionalViewsKept ==
    /\ "fps" \notin lastOp'.fields => fpsCounter' = fpsCounter
    /\ "temporal_voting" \notin lastOp'.fields => votingStatus' = votingStatus
    /\ "motion" \notin lastOp'.fields => motionView' = motionView

\* C14 (as stated): a snapshot updates each of the four sub-views only if its
\* field is present; a partial snapshot leaves every sub-view it does not
\* mention showing the previous values.
C14_PartialSnapshotKeepsViews ==
    [][StatsStep(lastOp') =>
         /\ OptionalViewsKept
         /\ \A k \in 1..4 :
              CounterFields[k] \notin lastOp'.fields => statsGrid'[k] = statsGrid[k]]_vars

\* C14 (amended): the FPS, voting and motion views are updated only if their
\* field is present and otherwise keep the previous values; the counters view
\* is rendered anew on every snapshot, with 0 (and '0h 0m') for every counter
\* the snapshot does not carry.
C14_PartialSnapshotAmended ==
    [][StatsStep(lastOp') =>
         /\ OptionalViewsKept
         /\ \A k \in 1..3 :
              CounterFields[k] \notin lastOp'.fields => statsGrid'[k] = Num(0)
         /\ "uptime" \notin lastOp'.fields
              => statsGrid'[4] = Str(<<"0", "h", " ", "0", "m">>)]_vars

\* a snapshot carrying only fps arrived after a full one: voting and motion
\* kept their rows, the counters went back to 0
C14_Witness ==
    /\ StatsStep(lastOp) /\ lastOp.fields = {"fps"}
    /\ votingStatus # <<>> /\ motionView.active
    /\ statsGrid[1] = Num(0)

\* C15: a failed backfill request leaves the event list, the seen-key set and
\* the connection state as they were, throws nothing, and is final: no second
\* request is issued.
C15_FailedBackfillIsSilent ==
    [][/\ (lastOp'.op = "backfill" /\ lastOp'.kind = "failed") =>
            /\ backfill' = "failed"
            /\ ~lastOp'.threw
            /\ UNCHANGED <<bufferVars, connVars, statsVars>>
       /\ backfill # "pending" => backfill' = backfill]_vars

\* the request failed after a live event had been admitted; the list kept it
C15_Witness ==
    /\ lastOp.op = "backfill" /\ backfill = "failed"
    /\ Len(eventsContainer) = 1 /\ Cardinality(seenEventKeys) = 1

Keyed == probe.stage \in {"keyed", "first", "second"}
HasId(e) == e.id.t = "number"

\* C16: two events with the same numeric id have the same EventKey whatever
\* their other fields, and the second one admitted is rejected as a duplicate.
C16_KeyDependsOnlyOnId ==
    (Keyed /\ HasId(probe.a) /\ HasId(probe.b) /\ probe.a.id = probe.b.id) =>
        /\ probe.ka = probe.kb
        /\ probe.stage = "second" =>
             eventsContainer = <<probe.a>> /\ renderCount = 1 /\ lastOp.added = 0

\* two events sharing id 7 and differing in every other field were admitted
\* one after the other
C16_Witness ==
    /\ probe.stage = "second"
    /\ probe.a.id = Num(7) /\ probe.b.id = Num(7)
    /\ probe.a.timestamp # probe.b.timestamp /\ probe.a.class_name # probe.b.class_name
    /\ probe.a.frame_number # probe.b.frame_number /\ probe.a.zone # probe.b.zone
    /\ probe.a.confidence # probe.b.confidence
    /\ renderCount = 1

SameTuple(a, b) ==
    /\ a.timestamp = b.timestamp /\ a.class_name = b.class_name
    /\ a.frame_number = b.frame_number /\ a.zone = b.zone

\* C17: two events without id have equal EventKey if and only if they agree
\* on timestamp, class_name, frame_number and zone (an absent zone differing
\* from any present zone), and an event without id never has the EventKey of
\* an event with an id.
C17_KeyIsTheTuple ==
    Keyed =>
        /\ (~HasId(probe.a) /\ ~HasId(probe.b)) =>
              ((probe.ka = probe.kb) <=> SameTuple(probe.a, probe.b))
        /\ (~HasId(probe.a) /\ HasId(probe.b)) => probe.ka # probe.kb

ShowsHoursMinutes(text, s) ==
    \E h \in 0..MaxUptimeSteps : \E m \in 0..59 :
        /\ 3600 * h + 60 * m <= s /\ s < 3600 * h + 60 * m + 60
        /\ text = Str(Digits(h) \o <<"h", " ">> \o Digits(m) \o <<"m">>)

\* C19: a snapshot whose uptime_seconds field is s >= 0 is shown as 'Hh Mm'
\* with H = floor(s / 3600) and M = floor((s mod 3600) / 60).
C19_UptimeSecondsField ==
    probe.stage = "applied" => ShowsHoursMinutes(statsGrid[4], probe.s)

\* C19 (amended): a snapshot whose uptime field is s >= 0 is shown as 'Hh Mm'
\* with H = floor(s / 3600) and M = floor((s mod 3600) / 60), 3661 as '1h 1m'
\* and 0 as '0h 0m'; a snapshot that carries the seconds only under
\* uptime_seconds is shown as '0h 0m'.
C19_UptimeHoursMinutes ==
    probe.stage = "applied" =>
        IF probe.field = "uptime"
        THEN /\ ShowsHoursMinutes(statsGrid[4], probe.s)
             /\ probe.s = 3661 => statsGrid[4] = Str(<<"1", "h", " ", "1", "m">>)
             /\ probe.s = 0 => statsGrid[4] = Str(<<"0", "h", " ", "0", "m">>)
        ELSE statsGrid[4] = Str(<<"0", "h", " ", "0", "m">>)

\* a snapshot with an uptime of 3661 s was projected
C19_Witness ==
    /\ probe.stage = "applied" /\ probe.s = 3661 /\ probe.field = "uptime"
    /\ statsGrid[4] = Str(<<"1", "h", " ", "1", "m">>)

\* C20: eviction is FIFO by insertion order, not by timestamp: every accepted
\* event goes to the front and pushes the others back in their order, the
\* entry that falls off past 20 is the last one (the earliest accepted), a
\* rejected event moves nothing, and the list holds min(20, k) entries after k
\* acceptances.
C20_FifoByInsertion ==
    [][/\ Len(eventsContainer') = Min(20, renderCount')
       /\ renderCount' = renderCount => eventsContainer' = eventsContainer
       /\ renderCount' > renderCount =>
            LET a == renderCount' - renderCount
                kept == Min(Len(eventsContainer), Max(0, 20 - a))
            IN /\ a = lastOp'.added
               /\ \A j \in 1..kept : eventsContainer'[a + j] = eventsContainer[j]
               /\ \A j \in 1..Min(a, 20) :
                     eventKey(eventsContainer'[j]) \notin seenEventKeys
               /\ LiveEventStep(lastOp') => eventKey(eventsContainer'[1]) = lastOp'.key]_vars

\* after more than 20 acceptances the list is full and an event with an older
\* timestamp stands in front of a newer one
C20_Witness ==
    /\ renderCount > 20 /\ Len(eventsContainer) = 20
    /\ eventsContainer[1].timestamp.n < eventsContainer[3].timestamp.n

\* C21: exactly one heartbeat interval timer exists in every state: no close
\* or reconnect starts a second one or cancels the first, a tick rearms it,
\* and each tick acts on this.ws, which is always the channel the latest
\* connectWebSocket call created.
C21_OneHeartbeatTimer ==
    /\ [](Len(heartbeats) = 1)
    /\ [][/\ lastOp'.op = "heartbeat" =>
               /\ lastOp'.sock = ws
               /\ heartbeats' = <<HeartbeatInterval>>
          /\ lastOp'.op \notin {"heartbeat", "tick"} => heartbeats' = heartbeats
          /\ lastOp'.op = "reconnect" =>
               /\ ws' = lastOp'.sock
               /\ sockets'[ws'].readyState = "CONNECTING"
               /\ sockets[ws'].readyState # "CONNECTING"
          /\ lastOp'.op # "reconnect" => ws' = ws]_vars

\* the one heartbeat timer ticked on a channel created after two failed attempts
C21_Witness ==
    /\ lastOp.op = "heartbeat" /\ failures >= 2 /\ Len(heartbeats) = 1
    /\ sockets[ws].readyState = "CONNECTING" /\ timers = <<>>

\* C22: the seen-key set only grows and holds the key of every entry of the
\* list; an entry that enters the list has a key that was never seen before,
\* so an event whose entry the cap removed is not admitted again, whether a
\* live frame or the backfill delivers it.
C22_SeenKeysOnlyGrow ==
    /\ [](Keys(eventsContainer) \subseteq seenEventKeys)
    /\ [][/\ seenEventKeys \subseteq seenEventKeys'
          /\ Keys(eventsContainer) \subseteq seenEventKeys'
          /\ \A j \in 1..Len(eventsContainer') :
                eventKey(eventsContainer'[j]) \in seenEventKeys =>
                    \E k \in 1..Len(eventsContainer) : eventsContainer[k] = eventsContainer'[j]
          /\ (LiveEventStep(lastOp') /\ lastOp'.key \in seenEventKeys) =>
                UNCHANGED bufferVars]_vars

\* a live frame delivered again an event whose entry the cap had removed
C22_Witness ==
    /\ LiveEventStep(lastOp) /\ lastOp.added = 0
    /\ lastOp.key \in seenEventKeys /\ lastOp.key \notin Keys(eventsContainer)
    /\ renderCount > 20 /\ Len(eventsContainer) = 20

\* C23: the channels whose close callback has not run and the pending
\* reconnect timers are exactly one in total.
C23_OneChannelOrOneTimer == Cardinality(UnclosedSockets) + Len(timers) = 1

\* after a second failed attempt no channel is left and one reconnect is pending
C23_Witness ==
    /\ lastOp.op = "onclose" /\ lastOp.kind = "failed" /\ failures >= 2
    /\ UnclosedSockets = {} /\ Len(timers) = 1

====
